---- MODULE Spec2Model ----
(***************************************************************************)
(* Model of the Tableau workbook comparator: the change registry           *)
(* (register_change and the module-level CHANGE_REGISTRY), the card        *)
(* builder (build_cards, detect_rls_renames) and the comparison runs       *)
(* (main, perform_comparison) that populate and read the registry, the     *)
(* section extractor (extract_sections) and the filter controls of the     *)
(* feature collector (collect_semantics).                                  *)
(*                                                                         *)
(* Strings.  A Python str is modelled as a sequence of tokens (words); a   *)
(* substring test "x in s" is a test for a contiguous run of tokens, the   *)
(* token " " is leading or trailing white space (what strip() removes),    *)
(* and len(s) is the sum of the token lengths.  Non-ASCII literals of the  *)
(* source are written as ASCII tokens: the em dash of the titles is        *)
(* "--", the card icons are "[removed]", "[added]", "[modified]".          *)
(***************************************************************************)
EXTENDS Naturals, Sequences, FiniteSets, TLC

VARIABLES
    registry,     \* CHANGE_REGISTRY, the module-level dict of tableau_comparator
    calls,        \* the register_change calls made so far (arguments, in order)
    regHist,      \* CHANGE_REGISTRY before the first call and after each call
    oldSections,  \* build_cards: the old section map
    newSections,  \* build_cards: the new section map
    env,          \* build_cards: the outcome of the external diff for the pair
    cards,        \* build_cards: the returned list of cards
    built,        \* build_cards has returned
    populated,    \* populate_change_registry_from_cards: "no", "done" or "raised"
    runs,         \* the comparison runs of this process
    root,         \* extract_sections, collect_semantics: the elements iterated
    out,          \* extract_sections: the returned section maps
    feats,        \* collect_semantics: the returned feature lists
    placed        \* what the loop stored for each element of root

vars ==
    <<registry, calls, regHist, oldSections, newSections, env, cards, built,
      populated, runs, root, out, feats, placed>>

----------------------------------------------------------------------------
(* Strings as token sequences *)

S(w) == <<w>>

RECURSIVE StrLen(_)
StrLen(s) == IF s = <<>> THEN 0 ELSE Len(Head(s)) + StrLen(Tail(s))

\* x in s
HasSub(s, p) ==
    \E i \in 0..(Len(s) - Len(p)) : SubSeq(s, i + 1, i + Len(p)) = p

LowerTok(t) ==
    CASE t = "LOD" -> "lod"
      [] t = "Hierarchy" -> "hierarchy"
      [] t = "Worksheet" -> "worksheet"
      [] t = "Dashboard" -> "dashboard"
      [] t = "Added" -> "added"
      [] t = "Removed" -> "removed"
      [] t = "Zone" -> "zone"
      [] t = "Fact" -> "fact"
      [] t = "Modified" -> "modified"
      [] t = "Check" -> "check"
      [] t = "Compact" -> "compact"
      [] OTHER -> t

\* s.lower()
Lower(s) == [i \in DOMAIN s |-> LowerTok(s[i])]

RECURSIVE LStrip(_)
LStrip(s) == IF s # <<>> /\ Head(s) = " " THEN LStrip(Tail(s)) ELSE s

RECURSIVE RStrip(_)
RStrip(s) ==
    IF s # <<>> /\ s[Len(s)] = " " THEN RStrip(SubSeq(s, 1, Len(s) - 1)) ELSE s

\* s.strip()
Strip(s) == RStrip(LStrip(s))

Dash == "--"

\* title.split(Dash, 1)[-1]
AfterDash(title) ==
    LET i == CHOOSE k \in DOMAIN title :
                 title[k] = Dash /\ \A j \in 1..(k - 1) : title[j] # Dash
    IN  SubSeq(title, i + 1, Len(title))

\* list(dict.fromkeys(xs)): first occurrence of each exact value, in order
RECURSIVE FromKeysAcc(_, _)
FromKeysAcc(xs, acc) ==
    IF xs = <<>> THEN acc
    ELSE IF \E i \in DOMAIN acc : acc[i] = Head(xs)
         THEN FromKeysAcc(Tail(xs), acc)
         ELSE FromKeysAcc(Tail(xs), Append(acc, Head(xs)))

DictFromKeys(xs) == FromKeysAcc(xs, <<>>)

----------------------------------------------------------------------------
(* Bullet normalisation *)

simplify_visual_bullet(b) ==
    IF HasSub(b, <<"Datasource", "filter", "added">>)
        THEN <<"Datasource", "filter", "added">>
    ELSE IF HasSub(b, <<"Datasource", "filter", "removed">>)
        THEN <<"Datasource", "filter", "removed">>
    ELSE IF HasSub(b, S("LOD")) THEN <<"LOD", "calculation", "modified">>
    ELSE IF HasSub(b, S("Hierarchy")) THEN <<"Hierarchy", "structure", "changed">>
    ELSE IF HasSub(b, <<"Join", "condition">>) THEN <<"Join", "condition", "modified">>
    ELSE IF HasSub(b, S("Worksheet")) /\ HasSub(Lower(b), S("added"))
        THEN <<"Worksheet", "added">>
    ELSE IF HasSub(b, S("Worksheet")) /\ HasSub(Lower(b), S("removed"))
        THEN <<"Worksheet", "removed">>
    ELSE IF HasSub(b, <<"Filter", "controls">>)
        THEN <<"Filter", "control", "type", "changed">>
    ELSE b

BulletKey(b) == Lower(simplify_visual_bullet(b))

RECURSIVE DedupeAcc(_, _, _)
DedupeAcc(bs, seen, clean) ==
    IF bs = <<>> THEN clean
    ELSE IF BulletKey(Head(bs)) \in seen
         THEN DedupeAcc(Tail(bs), seen, clean)
         ELSE DedupeAcc(Tail(bs), seen \cup {BulletKey(Head(bs))},
                        Append(clean, Head(bs)))

dedupe_visual_bullets(bullets) == DedupeAcc(bullets, {}, <<>>)

----------------------------------------------------------------------------
(* The change registry *)

EmptyRegistry ==
    [workbook |-> <<>>, datasources |-> <<>>, calculations |-> <<>>,
     parameters |-> <<>>, worksheets |-> <<>>, dashboards |-> <<>>,
     stories |-> <<>>]

\* A dict parent -> list of records, in insertion order of its keys.
HasKey(m, p) == \E i \in DOMAIN m : m[i].parent = p

KeyIdx(m, p) == CHOOSE i \in DOMAIN m : m[i].parent = p

\* m.get(p, [])
Recs(m, p) == IF HasKey(m, p) THEN m[KeyIdx(m, p)].recs ELSE <<>>

\* m.setdefault(p, [])
SetDefault(m, p) ==
    IF HasKey(m, p) THEN m ELSE Append(m, [parent |-> p, recs |-> <<>>])

\* mutant: storing the list of one parent forgets the other parents
PutRecs_DropOthers(m, p, recs) == <<[parent |-> p, recs |-> recs]>>

\* m[p] = recs
PutRecs(m, p, recs) ==
    LET d == SetDefault(m, p) IN [d EXCEPT ![KeyIdx(d, p)].recs = recs]

\* m.setdefault(p, []).append(rec)
AppendRec(m, p, rec) == PutRecs(m, p, Append(Recs(m, p), rec))

FilterTitle == <<"Datasource", "Filters">>

FilterObject == S("__datasource_filters__")

layout_keywords ==
    {S("layout"), S("zone"), S("position"), S("dimension"), S("width"),
     S("height"), <<"visual", "arrangement">>, S("container")}

ShownCap == 6

LayoutOnly(bullets) ==
    /\ bullets # <<>>
    /\ \A i \in DOMAIN bullets :
           \E k \in layout_keywords : HasSub(Lower(bullets[i]), k)

\* status after the dashboard layout-only downgrade
EffStatus(level, status, bullets) ==
    IF level = "dashboard" /\ status = S("Modified") /\ LayoutOnly(bullets)
    THEN S("Additional")
    ELSE status

Shown(title, bullets) ==
    LET clean == dedupe_visual_bullets(bullets)
    IN  IF HasSub(title, S("Calculation")) THEN clean
        ELSE SubSeq(clean, 1, IF Len(clean) < ShownCap THEN Len(clean) ELSE ShownCap)

ObjName(title) ==
    IF HasSub(title, S(Dash)) THEN Strip(AfterDash(title)) ELSE Strip(title)

\* mutant: the merge loop is skipped, every call appends
MergeOrAppend_NoMerge(bucket, entry, status) == Append(bucket, entry)

\* mutant: a merge overwrites the stored bullets and status
MergeOrAppend_Overwrite(bucket, entry, status) ==
    IF \E i \in DOMAIN bucket : bucket[i].object = entry.object
    THEN LET i == CHOOSE k \in DOMAIN bucket :
                      /\ bucket[k].object = entry.object
                      /\ \A j \in 1..(k - 1) : bucket[j].object # entry.object
         IN  [bucket EXCEPT ![i].bullets = entry.bullets, ![i].status = status]
    ELSE Append(bucket, entry)

\* the "semantic dedupe" loop and the first-occurrence append
MergeOrAppend(bucket, entry, status) ==
    IF \E i \in DOMAIN bucket : bucket[i].object = entry.object
    THEN LET i == CHOOSE k \in DOMAIN bucket :
                      /\ bucket[k].object = entry.object
                      /\ \A j \in 1..(k - 1) : bucket[j].object # entry.object
         IN  [bucket EXCEPT
                 ![i].bullets = DictFromKeys(@ \o entry.bullets),
                 ![i].status = IF StrLen(@) < StrLen(status) THEN status ELSE @]
    ELSE Append(bucket, entry)

\* mutant: the level 'calculation' has a bucket of its own
BucketOf_Calculation(level) ==
    CASE level = "datasource" -> "datasources"
      [] level = "worksheet" -> "worksheets"
      [] level = "dashboard" -> "dashboards"
      [] level = "parameter" -> "parameters"
      [] level = "story" -> "stories"
      [] level = "calculation" -> "calculations"
      [] OTHER -> "none"

BucketOf(level) ==
    CASE level = "datasource" -> "datasources"
      [] level = "worksheet" -> "worksheets"
      [] level = "dashboard" -> "dashboards"
      [] level = "parameter" -> "parameters"
      [] level = "story" -> "stories"
      [] OTHER -> "none"

register_change(reg, level, parent, title, status, bullets) ==
    IF level = "datasource" /\ title = FilterTitle
    THEN [reg EXCEPT !.datasources =
             AppendRec(@, parent,
                 [status |-> Strip(status), title |-> Strip(title),
                  object |-> FilterObject, bullets |-> DictFromKeys(bullets)])]
    ELSE LET st == EffStatus(level, status, bullets)
             entry == [status |-> Strip(st), title |-> Strip(title),
                       object |-> ObjName(title), bullets |-> Shown(title, bullets)]
         IN  IF level = "workbook"
             THEN [reg EXCEPT !.workbook = MergeOrAppend(@, entry, st)]
             ELSE IF BucketOf(level) = "none" THEN reg
             ELSE [reg EXCEPT ![BucketOf(level)] =
                      PutRecs(@, parent, MergeOrAppend(Recs(@, parent), entry, st))]

----------------------------------------------------------------------------
(* Section maps and fragments *)

\* A section map is a dict name -> fragment, kept in insertion order.  A
\* fragment (the ET.tostring text of one element) is the record of what the
\* element holds: its serialisation variant (attribute order; the text
\* differs, the tree does not), its repository-location id (0: none), the
\* filter fields it declares and its zone layout.  A calculation fragment
\* holds its formula (the empty string when the calculation has none).
Names(m) == {m[i].name : i \in DOMAIN m}

\* m.get(name)
Frag(m, name) == m[CHOOSE i \in DOMAIN m : m[i].name = name].frag

NameOrder == <<S("A"), S("B"), S("C")>>

NameRank(n) == CHOOSE i \in DOMAIN NameOrder : NameOrder[i] = n

\* sorted(names)
RECURSIVE SortNames(_)
SortNames(ns) ==
    IF ns = {} THEN <<>>
    ELSE LET least == CHOOSE n \in ns : \A o \in ns : NameRank(n) <= NameRank(o)
         IN  <<least>> \o SortNames(ns \ {least})

FieldOrder == <<"A", "LOD Cost", "LOD Sales", "Region", "Year">>

RECURSIVE SortFields(_)
SortFields(fs) ==
    IF fs = {} THEN <<>>
    ELSE LET least == CHOOSE f \in fs : \A o \in fs :
                 (CHOOSE i \in DOMAIN FieldOrder : FieldOrder[i] = f)
                     <= (CHOOSE i \in DOMAIN FieldOrder : FieldOrder[i] = o)
         IN  <<least>> \o SortFields(fs \ {least})

\* the element tag at the root of a section's fragments
RootTag(sec) ==
    CASE sec = "dashboards" -> "dashboard"
      [] sec = "stories" -> "dashboard"
      [] sec = "worksheets" -> "worksheet"
      [] sec = "parameters" -> "column"
      [] sec = "datasources" -> "datasource"
      [] OTHER -> "column"

\* diff_texts(a, b): one line per edit of the tree, each naming its path
DiffLines(sec, o, n) ==
    (IF o.repo # n.repo
     THEN <<<<"update-attribute", RootTag(sec), "repository-location", "id">>>>
     ELSE <<>>)
    \o [i \in 1..Len(SortFields(o.filters \ n.filters)) |->
           <<"delete", RootTag(sec), "filter", SortFields(o.filters \ n.filters)[i]>>]
    \o [i \in 1..Len(SortFields(n.filters \ o.filters)) |->
           <<"insert", RootTag(sec), "filter", SortFields(n.filters \ o.filters)[i]>>]
    \o (IF o.layout # n.layout
        THEN <<<<"update-attribute", RootTag(sec), "zone", "x">>>>
        ELSE <<>>)

DiffFailed == <<<<"(xmldiff", "failed:", "error)">>>>

\* xmldiff_text(a, b) for two non-empty fragments; e.diffFails: diff_texts raises
xmldiff_text(e, sec, o, n) == IF e.diffFails THEN DiffFailed ELSE DiffLines(sec, o, n)

meaningful_keywords ==
    {"story-point", "captured-sheet", "zone", "worksheet", "dashboard", "filter",
     "parameter", "calculation"}

\* mutant: no pair is publish noise
is_story_publish_noise_Never(e, sec, o, n) == FALSE

is_story_publish_noise(e, sec, o, n) ==
    LET diff == xmldiff_text(e, sec, o, n)
    IN  \A i \in DOMAIN diff :
            \/ HasSub(diff[i], S("repository-location"))
            \/ HasSub(diff[i], S("content-url"))
            \/ ~\E k \in meaningful_keywords : HasSub(Lower(diff[i]), S(k))

\* collect_semantics: the feature sets a fragment yields
collect_semantics(sec, f) ==
    [filters |-> IF sec = "worksheets" THEN f.filters ELSE {},
     dashboard_filters |-> IF sec = "dashboards" THEN f.filters ELSE {},
     story_points |-> {}]

\* the words of a field name
FieldWords(f) ==
    CASE f = "LOD Cost" -> <<"LOD", "Cost">>
      [] f = "LOD Sales" -> <<"LOD", "Sales">>
      [] OTHER -> <<f>>

\* ", ".join(fields)
RECURSIVE JoinFields(_)
JoinFields(fs) ==
    IF fs = <<>> THEN <<>> ELSE FieldWords(Head(fs)) \o JoinFields(Tail(fs))

\* diff_set(title, a, b, add_icon, rem_icon)
diff_set(title, a, b, add_icon, rem_icon) ==
    (IF b \ a # {}
     THEN <<(<<add_icon>> \o title \o <<"added:">> \o JoinFields(SortFields(b \ a)))>>
     ELSE <<>>)
    \o (IF a \ b # {}
        THEN <<(<<rem_icon>> \o title \o <<"removed:">> \o JoinFields(SortFields(a \ b)))>>
        ELSE <<>>)

summarize_semantics(label, old, new) ==
    IF label = "Dashboard"
    THEN diff_set(<<"Dashboard-level", "filters">>, old.dashboard_filters,
                  new.dashboard_filters, "[find]", "[find]")
    ELSE IF label = "Worksheet"
    THEN diff_set(S("Filters"), old.filters, new.filters, "[+]", "[-]")
    ELSE IF label = "Story"
    THEN IF old.story_points = new.story_points THEN <<>>
         ELSE diff_set(<<"Story", "Points">>, old.story_points, new.story_points,
                       "[+]", "[-]")
    ELSE <<>>

GptHeader == <<"---", "GPT", "Summary", "---">>

Card(status, icon, sec, title, name, bullets) ==
    [status |-> status, icon |-> icon, section |-> sec, title |-> title,
     name |-> name, bullets |-> bullets]

LabelOf(sec) ==
    CASE sec = "dashboards" -> "Dashboard"
      [] sec = "worksheets" -> "Worksheet"
      [] sec = "parameters" -> "Parameter"
      [] sec = "stories" -> "Story"
      [] sec = "datasources" -> "Datasource"
      [] OTHER -> "Calculation"

RemovedCard(sec, name) ==
    Card(S("removed"), "[removed]", sec, <<"Removed", LabelOf(sec)>>, name,
         <<(<<LabelOf(sec), "'">> \o name \o <<"'", "removed">>)>>)

AddedCard(sec, name) ==
    Card(S("added"), "[added]", sec, <<"Added", LabelOf(sec)>>, name,
         <<(<<LabelOf(sec), "'">> \o name \o <<"'", "added">>)>>)

\* the branch "o and n and o != n" of build_cards
ModifiedCards(e, sec, o, n, name) ==
    LET label == LabelOf(sec)
        ops == xmldiff_text(e, sec, o, n)
        sem == summarize_semantics(label, collect_semantics(sec, o),
                                   collect_semantics(sec, n))
        bullets == IF ops # <<>> /\ ops # DiffFailed
                   THEN sem \o <<GptHeader>> \o e.gpt
                   ELSE sem
    IN  IF label \in {"Dashboard", "Story"} /\ is_story_publish_noise(e, sec, o, n)
        THEN <<>>
        ELSE IF bullets # <<>>
        THEN <<Card(S("modified"), "[modified]", sec, <<"Modified", label>>, name,
                    bullets)>>
        ELSE <<>>

\* mutant: the removed branch is taken for every name of the old map
NameCards_RemovedFirst(e, sec, old, new, name) ==
    IF name \in Names(old)
    THEN IF LabelOf(sec) = "Datasource" THEN <<>> ELSE <<RemovedCard(sec, name)>>
    ELSE IF LabelOf(sec) = "Datasource" THEN <<>> ELSE <<AddedCard(sec, name)>>

\* build_cards, non-calc sections: the cards of one name (none for a datasource
\* that is added or removed: summarize_datasources registers it instead)
NameCards(e, sec, old, new, name) ==
    LET inOld == name \in Names(old)
        inNew == name \in Names(new)
    IN  IF inOld /\ ~inNew
        THEN IF LabelOf(sec) = "Datasource" THEN <<>> ELSE <<RemovedCard(sec, name)>>
        ELSE IF inNew /\ ~inOld
        THEN IF LabelOf(sec) = "Datasource" THEN <<>> ELSE <<AddedCard(sec, name)>>
        ELSE IF inOld /\ inNew /\ Frag(old, name) # Frag(new, name)
        THEN ModifiedCards(e, sec, Frag(old, name), Frag(new, name), name)
        ELSE <<>>

RECURSIVE SectionCardsOver(_, _, _, _, _)
SectionCardsOver(e, sec, old, new, names) ==
    IF names = <<>> THEN <<>>
    ELSE NameCards(e, sec, old, new, Head(names))
             \o SectionCardsOver(e, sec, old, new, Tail(names))

\* the loop over sorted(set(old) | set(new)) of one section
SectionCards(e, sec, old, new) ==
    SectionCardsOver(e, sec, old, new, SortNames(Names(old) \cup Names(new)))

NonCalcSections == <<"dashboards", "worksheets", "parameters", "stories", "datasources">>

\* summarize_datasources: the bullets of the "Datasource Summary" record
SummaryBullets(f) ==
    IF f.repo # 0
    THEN << <<"Source:", "Tableau", "Server">>,
            <<"Datasource", "Type:", "Published", "Datasource">>,
            <<"Connection:", "Managed", "by", "Tableau">>,
            <<"Mode:", "Live">>,
            <<"Location:", "Tableau", "Server", "/", "Cloud">> >>
    ELSE << <<"Source:", "Embedded">>,
            <<"Datasource", "Type:", "Unknown">>,
            <<"Connection:", "Unknown">>,
            <<"Mode:", "Live">>,
            <<"Location:", "Local/Embedded">> >>

summarize_datasources(reg, name, f) ==
    register_change(reg, "datasource", name, <<"Datasource", "Summary">>,
                    S("info"), SummaryBullets(f))

\* build_cards registers every datasource that is only in one of the maps
RECURSIVE SummariesOver(_, _, _, _)
SummariesOver(reg, old, new, names) ==
    IF names = <<>> THEN reg
    ELSE LET nm == Head(names)
             next == IF nm \in Names(old) /\ nm \notin Names(new)
                     THEN summarize_datasources(reg, nm, Frag(old, nm))
                     ELSE IF nm \in Names(new) /\ nm \notin Names(old)
                     THEN summarize_datasources(reg, nm, Frag(new, nm))
                     ELSE reg
         IN  SummariesOver(next, old, new, Tail(names))

----------------------------------------------------------------------------
(* Calculations and the RLS rename detection *)

None == S("<None>")

\* extract_formula: the formula attribute, else the stripped text
extract_formula(f) == f.formula

UpperTok(t) ==
    CASE t = "username(" -> "USERNAME("
      [] t = "ismemberof(" -> "ISMEMBEROF("
      [] t = "userfullname(" -> "USERFULLNAME("
      [] OTHER -> t

Upper(s) == [i \in DOMAIN s |-> UpperTok(s[i])]

is_rls_calculation(formula) ==
    /\ formula # <<>>
    /\ \E k \in {"USERNAME(", "USERFULLNAME(", "ISMEMBEROF("} :
           HasSub(Upper(formula), S(k))

\* the dict comprehensions old_rls / new_rls
RlsOnly(calcs) == SelectSeq(calcs, LAMBDA c : is_rls_calculation(extract_formula(c.frag)))

\* mutant: a match needs no equal formula
RenameMatches_AnyFormula(o, new_rls) == SelectSeq(new_rls, LAMBDA c : o.name # c.name)

\* the list "matches" of one old RLS calculation
RenameMatches(o, new_rls) ==
    SelectSeq(new_rls,
        LAMBDA c : extract_formula(o.frag) = extract_formula(c.frag) /\ o.name # c.name)

\* mutant: the first of several matches is taken as the rename target
RECURSIVE RenamesOver_FirstMatch(_, _)
RenamesOver_FirstMatch(old_rls, new_rls) ==
    IF old_rls = <<>> THEN <<>>
    ELSE LET o == Head(old_rls)
             matches == RenameMatches(o, new_rls)
         IN  (IF Len(matches) >= 1
              THEN <<[old |-> o.name, new |-> matches[1].name]>>
              ELSE <<>>)
             \o RenamesOver_FirstMatch(Tail(old_rls), new_rls)

\* detect_rls_renames: the dict old name -> new name, in insertion order
RECURSIVE RenamesOver(_, _)
RenamesOver(old_rls, new_rls) ==
    IF old_rls = <<>> THEN <<>>
    ELSE LET o == Head(old_rls)
             matches == RenameMatches(o, new_rls)
         IN  (IF Len(matches) = 1
              THEN <<[old |-> o.name, new |-> matches[1].name]>>
              ELSE <<>>)
             \o RenamesOver(Tail(old_rls), new_rls)

detect_rls_renames(old_calcs, new_calcs) ==
    RenamesOver(RlsOnly(old_calcs), RlsOnly(new_calcs))

\* is_calc_used_as_filter
is_calc_used_as_filter(calc_name, new_sections) ==
    \E i \in DOMAIN new_sections.worksheets :
        \E f \in new_sections.worksheets[i].frag.filters : S(f) = calc_name

RenameCard(r, new_calcs) ==
    Card(S("modified"), "[modified]", "calculations",
         <<"Renamed", "RLS", "Calculation">>, r.new,
         << <<"Type:", "Row-Level", "Security">>,
            <<"Old", "name:">> \o r.old,
            <<"Formula", "unchanged:">> \o extract_formula(Frag(new_calcs, r.new)) >>)

RemovedCalcCard(c) ==
    LET formula == extract_formula(c.frag)
        rls == is_rls_calculation(formula)
    IN  Card(S("removed"), "[removed]", "calculations",
             IF rls THEN <<"Removed", "RLS", "Calculation">>
             ELSE <<"Removed", "Calculation">>,
             c.name,
             << IF rls THEN <<"Type:", "Row-Level", "Security">>
                ELSE <<"Type:", "Standard">>,
                IF formula # <<>> THEN <<"Formula:">> \o formula ELSE None >>)

AddedCalcCard(c, new_sections) ==
    LET formula == extract_formula(c.frag)
        rls == is_rls_calculation(formula)
    IN  Card(S("added"), "[added]", "calculations",
             IF rls THEN <<"Added", "RLS", "Calculation">>
             ELSE <<"Added", "Calculation">>,
             c.name,
             (IF rls THEN << <<"Type:", "Row-Level", "Security">> >> ELSE <<>>)
             \o (IF formula # <<>> THEN << <<"Formula:">> \o formula >> ELSE <<>>)
             \o (IF is_calc_used_as_filter(c.name, new_sections)
                 THEN << <<"Applied", "as", "worksheet", "filter", "(TRUE)">> >>
                 ELSE <<>>))

\* mutant: a renamed calculation still gets its removed card
RemovedCalcs_KeepRenamed(old_calcs, new_calcs, renames) ==
    SelectSeq(old_calcs, LAMBDA c : c.name \notin Names(new_calcs))

\* the old calculations that get a removed card
RemovedCalcs(old_calcs, new_calcs, renames) ==
    SelectSeq(old_calcs,
        LAMBDA c : /\ c.name \notin {renames[i].old : i \in DOMAIN renames}
                   /\ c.name \notin Names(new_calcs))

\* the new calculations that get an added card
AddedCalcs(old_calcs, new_calcs, renames) ==
    SelectSeq(new_calcs,
        LAMBDA c : /\ c.name \notin {renames[i].new : i \in DOMAIN renames}
                   /\ c.name \notin Names(old_calcs))

CalcCards(old_sections, new_sections) ==
    LET old_calcs == old_sections.calculations
        new_calcs == new_sections.calculations
        rls_renames == detect_rls_renames(old_calcs, new_calcs)
        removed == RemovedCalcs(old_calcs, new_calcs, rls_renames)
        added == AddedCalcs(old_calcs, new_calcs, rls_renames)
    IN  [i \in DOMAIN rls_renames |-> RenameCard(rls_renames[i], new_calcs)]
        \o [i \in DOMAIN removed |-> RemovedCalcCard(removed[i])]
        \o [i \in DOMAIN added |-> AddedCalcCard(added[i], new_sections)]

\* the cards of the five non-calc sections, in the order of the loop
NonCalcCards(e, old_sections, new_sections) ==
    SectionCards(e, "dashboards", old_sections.dashboards, new_sections.dashboards)
    \o SectionCards(e, "worksheets", old_sections.worksheets, new_sections.worksheets)
    \o SectionCards(e, "parameters", old_sections.parameters, new_sections.parameters)
    \o SectionCards(e, "stories", old_sections.stories, new_sections.stories)
    \o SectionCards(e, "datasources", old_sections.datasources, new_sections.datasources)

\* build_cards: the returned cards
build_cards(e, old_sections, new_sections) ==
    NonCalcCards(e, old_sections, new_sections) \o CalcCards(old_sections, new_sections)

\* build_cards: its effect on the registry (the datasource summaries)
build_cards_registry(reg, old_sections, new_sections) ==
    SummariesOver(reg, old_sections.datasources, new_sections.datasources,
                  SortNames(Names(old_sections.datasources)
                            \cup Names(new_sections.datasources)))

----------------------------------------------------------------------------
(* populate_change_registry_from_cards and the datasource compare pass *)

\* a None bullet makes simplify_visual_bullet raise TypeError; the filter
\* registration returns before the bullets are normalised
register_change_raises(level, title, bullets) ==
    /\ ~(level = "datasource" /\ title = FilterTitle)
    /\ \E i \in DOMAIN bullets : bullets[i] = None

UnknownDatasource == <<"Unknown", "Datasource">>

ParametersParent == S("Parameters")

\* f"{c['icon']} {c['title']} -- {c['name']}"
CardTitle(c) == <<c.icon>> \o c.title \o <<Dash>> \o c.name

CalcTitle(c) == <<"Calculation", Dash>> \o c.name

\* the level of the register_change call a card leads to ("none": no call)
CardLevel(c) ==
    CASE c.section \in {"datasources", "calculations"} -> "datasource"
      [] c.section = "worksheets" -> "worksheet"
      [] c.section = "dashboards" -> "dashboard"
      [] c.section = "stories" /\ c.bullets # <<>> -> "story"
      [] OTHER -> "none"

\* one iteration of the loop of populate_change_registry_from_cards
populate_card(reg, c) ==
    IF c.section = "parameters"
    THEN [reg EXCEPT !.parameters = AppendRec(@, ParametersParent,
             [status |-> c.status, title |-> <<"Parameter", Dash>> \o c.name,
              object |-> c.name, bullets |-> c.bullets])]
    ELSE IF CardLevel(c) = "none" THEN reg
    ELSE register_change(reg, CardLevel(c),
             IF c.section = "calculations" THEN UnknownDatasource ELSE c.name,
             IF c.section = "calculations" THEN CalcTitle(c) ELSE CardTitle(c),
             c.status, c.bullets)

\* the iteration ends in an uncaught TypeError
populate_card_raises(c) ==
    /\ c.section # "parameters"
    /\ CardLevel(c) # "none"
    /\ register_change_raises(CardLevel(c),
           IF c.section = "calculations" THEN CalcTitle(c) ELSE CardTitle(c),
           c.bullets)

\* populate_change_registry_from_cards(cards): the registry it leaves and
\* whether it ended in an uncaught TypeError (the cards after the raising
\* one are not registered)
RECURSIVE populate_change_registry_from_cards(_, _)
populate_change_registry_from_cards(reg, cs) ==
    IF cs = <<>> THEN [reg |-> reg, raised |-> FALSE]
    ELSE IF populate_card_raises(Head(cs)) THEN [reg |-> reg, raised |-> TRUE]
    ELSE populate_change_registry_from_cards(populate_card(reg, Head(cs)), Tail(cs))

\* old_datasources.get(ds_name) when the name is missing
Absent == [absent |-> TRUE]

Get(m, name) == IF name \in Names(m) THEN Frag(m, name) ELSE Absent

\* determine_mode_and_privacy: the privacy (the mode of every modelled
\* fragment is Live: none holds an extract)
PrivacyOf(f) == IF f # Absent /\ f.repo # 0 THEN "Published" ELSE "Embedded"

RepoPath(f) == IF f.repo = 1 THEN "p1" ELSE "p2"

\* classify_datasource: the fields of the info dict that vary in the model
classify_datasource(f) ==
    IF f # Absent /\ f.repo # 0
    THEN [source |-> "Published",
          location |-> <<"Site:", "Default", "|", "Path:", RepoPath(f)>>]
    ELSE [source |-> "Embedded", location |-> S("Local/Embedded")]

FiltersOf(f) == IF f = Absent THEN {} ELSE f.filters

\* the bullets compare() builds
MetadataBullets(o, n) ==
    LET added == SortFields(FiltersOf(n) \ FiltersOf(o))
        removed == SortFields(FiltersOf(o) \ FiltersOf(n))
        common == SortFields(FiltersOf(n) \cap FiltersOf(o))
        old_info == classify_datasource(o)
        new_info == classify_datasource(n)
    IN  << <<"[i]", "Unknown", "(Live", "|", PrivacyOf(n), ")">> >>
        \o (IF added # <<>> THEN << <<"[+]", "New", "Filters", "Added:">> \o added >>
            ELSE <<>>)
        \o (IF removed # <<>> THEN << <<"[-]", "Filters", "Removed:">> \o removed >>
            ELSE <<>>)
        \o (IF common # <<>>
            THEN << <<"[i]", "Existing", "Filters", "(unchanged):">> \o common >>
            ELSE <<>>)
        \o (IF old_info.location # new_info.location
            THEN << <<"Location", "Change:">> \o old_info.location
                    \o <<"->">> \o new_info.location >>
            ELSE << <<"Location:">> \o new_info.location >>)
        \o (IF PrivacyOf(o) # PrivacyOf(n)
            THEN << <<"Privacy:", PrivacyOf(o), "->", PrivacyOf(n)>> >>
            ELSE <<>>)

MetadataObject == S("__metadata__")

\* compare(name, old_xml, new_xml, ...): the record it appends
compare(reg, name, o, n) ==
    [reg EXCEPT !.datasources = AppendRec(@, name,
        [status |-> IF classify_datasource(o) # classify_datasource(n)
                    THEN S("modified") ELSE S("info"),
         title |-> <<"Datasource", "Metadata", "&", "Connection">>,
         object |-> MetadataObject,
         bullets |-> MetadataBullets(o, n)])]

----------------------------------------------------------------------------
(* register_change called directly: any caller, any arguments *)

MaxCalls == 3

P == S("P")
Q == S("Q")

TitleA == <<"[modified]", "Modified", "Worksheet", Dash, "A">>
TitlePadA == <<" ", "A">>
TitleCalcA == <<"Calculation", Dash, "A">>

lodA == <<"LOD", "calc", "A">>
lodB == <<"LOD", "calc", "B">>
zoneW == <<"Zone", "width", "changed">>
containerPos == <<"container", "position", "moved">>
Fact(i) == <<"fact", i>>

ListLod == <<lodA, lodB>>
ListMix == <<zoneW, lodB>>
ListZone == <<zoneW, containerPos, zoneW>>
ListSeven ==
    <<Fact("1"), Fact("2"), <<"Fact", "1">>, Fact("3"), Fact("4"), Fact("5"),
      Fact("6"), Fact("7")>>

Levels ==
    {"workbook", "datasource", "worksheet", "dashboard", "parameter", "story",
     "calculation"}

Call(l, p, t, s, b) ==
    [level |-> l, parent |-> p, title |-> t, status |-> s, bullets |-> b]

CallArgs ==
    {Call(l, P, TitleA, S("modified"), ListLod) : l \in Levels}
    \cup {Call("datasource", P, t, S("info"), b) :
            t \in {FilterTitle, FilterObject, TitleCalcA, TitlePadA},
            b \in {ListMix, ListSeven}}
    \cup {Call("datasource", Q, t, S("info"), ListMix) : t \in {FilterTitle, TitlePadA}}
    \cup {Call("dashboard", P, TitleA, s, b) :
            s \in {S("Modified"), <<"info", " ">>}, b \in {ListZone, ListMix}}

NoSections ==
    [dashboards |-> <<>>, worksheets |-> <<>>, parameters |-> <<>>,
     stories |-> <<>>, datasources |-> <<>>, calculations |-> <<>>]

\* the dict collect_semantics starts from (the key filter_controls)
NoFeats == [filter_controls |-> <<>>]

\* no element tree has been given to extract_sections or collect_semantics
NoTree ==
    /\ root = <<>>
    /\ out = NoSections
    /\ feats = NoFeats
    /\ placed = <<>>

TreeUnchanged == UNCHANGED <<root, out, feats, placed>>

InitRegister ==
    /\ registry = EmptyRegistry
    /\ calls = <<>>
    /\ regHist = <<EmptyRegistry>>
    /\ oldSections = NoSections
    /\ newSections = NoSections
    /\ env = <<>>
    /\ cards = <<>>
    /\ built = FALSE
    /\ populated = "no"
    /\ runs = <<>>
    /\ NoTree

Register(a) ==
    /\ Len(calls) < MaxCalls
    /\ registry' = register_change(registry, a.level, a.parent, a.title,
                                   a.status, a.bullets)
    /\ calls' = Append(calls, a)
    /\ regHist' = Append(regHist, registry')
    /\ UNCHANGED <<oldSections, newSections, env, cards, built, populated, runs>>
    /\ TreeUnchanged

NextRegister == \E a \in CallArgs : Register(a)

SpecRegister == InitRegister /\ [][NextRegister]_vars

----------------------------------------------------------------------------
(* build_cards on every pair of small section maps *)

MaxEntries == 3

F0 == [ser |-> 0, repo |-> 1, filters |-> {"Region"}, layout |-> 0]
FSer == [F0 EXCEPT !.ser = 1]
FRepo == [F0 EXCEPT !.repo = 2]
FFilt == [F0 EXCEPT !.filters = {"Year"}]
FLay == [F0 EXCEPT !.layout = 1]

Frags == {F0, FSer, FRepo, FFilt, FLay}

\* worksheets filtered on fields whose names share a word
FLodCost == [F0 EXCEPT !.filters = {"LOD Cost"}]
FLodSales == [F0 EXCEPT !.filters = {"LOD Sales"}]

LodFrags == {FLodCost, FLodSales}

FormulaF == <<"USERNAME(", ")=", "x">>
FormulaG == <<"ismemberof(", "grp", ")">>
FormulaH == <<"SUM(", "Sales", ")">>

CalcFrags == {[formula |-> f] : f \in {FormulaF, FormulaG, FormulaH, <<>>}}

\* the dicts of k entries: distinct names, any insertion order
RECURSIVE MapsOfLen(_, _, _)
MapsOfLen(names, frags, k) ==
    IF k = 0 THEN {<<>>}
    ELSE UNION {{Append(p, [name |-> n, frag |-> f]) :
                    n \in names \ Names(p), f \in frags} :
                p \in MapsOfLen(names, frags, k - 1)}

\* the sizes (old map, new map) of at most MaxEntries entries in all
SizePairs ==
    {x \in (0..MaxEntries) \X (0..MaxEntries) : x[1] + x[2] <= MaxEntries}

Envs ==
    {[diffFails |-> FALSE, gpt |-> <<>>],
     [diffFails |-> FALSE, gpt |-> <<S("summary")>>],
     [diffFails |-> FALSE, gpt |-> <<<<"Updated", "zone", "width">>>>],
     [diffFails |-> TRUE, gpt |-> <<>>]}

CalmEnv == [diffFails |-> FALSE, gpt |-> <<>>]

WorksheetUsingA == <<[name |-> S("A"), frag |-> [F0 EXCEPT !.filters = {"A"}]]>>

CardNames == {S("A"), S("B")}

CalcNames == {S("A"), S("B"), S("C")}

BlankCards ==
    /\ registry = EmptyRegistry
    /\ calls = <<>>
    /\ regHist = <<EmptyRegistry>>
    /\ cards = <<>>
    /\ built = FALSE
    /\ populated = "no"
    /\ runs = <<>>
    /\ NoTree

\* the inputs of build_cards: one section populated, any small pair of maps
InitCards ==
    /\ BlankCards
    /\ \E ij \in SizePairs :
           \/ \E sec \in {NonCalcSections[i] : i \in DOMAIN NonCalcSections},
                 o \in MapsOfLen(CardNames, Frags, ij[1]),
                 n \in MapsOfLen(CardNames, Frags, ij[2]), e \in Envs :
                  /\ oldSections = [NoSections EXCEPT ![sec] = o]
                  /\ newSections = [NoSections EXCEPT ![sec] = n]
                  /\ env = e
           \/ \E o \in MapsOfLen(CalcNames, CalcFrags, ij[1]),
                 n \in MapsOfLen(CalcNames, CalcFrags, ij[2]),
                 ws \in {<<>>, WorksheetUsingA} :
                  /\ oldSections = [NoSections EXCEPT !.calculations = o]
                  /\ newSections =
                         [NoSections EXCEPT !.calculations = n, !.worksheets = ws]
                  /\ env = CalmEnv
           \/ \E o \in MapsOfLen(CardNames, LodFrags, ij[1]),
                 n \in MapsOfLen(CardNames, LodFrags, ij[2]), e \in Envs :
                  /\ oldSections = [NoSections EXCEPT !.worksheets = o]
                  /\ newSections = [NoSections EXCEPT !.worksheets = n]
                  /\ env = e

BuildCards ==
    /\ ~built
    /\ cards' = build_cards(env, oldSections, newSections)
    /\ registry' = build_cards_registry(registry, oldSections, newSections)
    /\ built' = TRUE
    /\ UNCHANGED <<calls, regHist, oldSections, newSections, env, populated, runs>>
    /\ TreeUnchanged

\* populate_change_registry_from_cards(cards), as main and perform_comparison
\* call it right after build_cards
PopulateCards ==
    /\ built
    /\ populated = "no"
    /\ LET res == populate_change_registry_from_cards(registry, cards)
       IN  /\ registry' = res.reg
           /\ populated' = IF res.raised THEN "raised" ELSE "done"
    /\ UNCHANGED <<calls, regHist, oldSections, newSections, env, cards, built, runs>>
    /\ TreeUnchanged

NextCards == BuildCards \/ PopulateCards

SpecCards == InitCards /\ [][NextCards]_vars

----------------------------------------------------------------------------
(* The comparison runs of one process.  The command line process runs main *)
(* once; the UI process runs perform_comparison for every request, each on *)
(* the script thread of its session, all of them on the one                *)
(* tableau_comparator module and its CHANGE_REGISTRY.                      *)

MaxRuns == 2

RunIds == 1..MaxRuns

Sections(sec, m) == [NoSections EXCEPT ![sec] = m]

One(name, f) == <<[name |-> name, frag |-> f]>>

\* the workbook pairs a run may be given
Workbooks ==
    {[old |-> Sections("parameters", One(S("A"), F0)), new |-> NoSections],
     [old |-> NoSections, new |-> Sections("datasources", One(S("A"), F0))],
     [old |-> Sections("worksheets", One(S("B"), F0)),
      new |-> Sections("worksheets", One(S("B"), FFilt))],
     [old |-> Sections("worksheets", One(S("B"), F0)),
      new |-> [Sections("worksheets", One(S("B"), FFilt))
                  EXCEPT !.datasources = One(S("A"), F0)]],
     [old |-> Sections("calculations", One(S("A"), [formula |-> <<>>])),
      new |-> Sections("calculations", One(S("B"), [formula |-> FormulaH]))]}

IdleRun(kind) ==
    [kind |-> kind, pc |-> "idle", old |-> NoSections, new |-> NoSections,
     cards |-> <<>>, next |-> 1, pending |-> {}, overlapped |-> FALSE,
     regAtStart |-> EmptyRegistry, own |-> EmptyRegistry,
     after |-> EmptyRegistry, seen |-> EmptyRegistry]

Active(r) == r.pc \in {"extracted", "built", "populated"}

InitRun ==
    /\ registry = EmptyRegistry
    /\ calls = <<>>
    /\ regHist = <<EmptyRegistry>>
    /\ oldSections = NoSections
    /\ newSections = NoSections
    /\ env = CalmEnv
    /\ cards = <<>>
    /\ built = FALSE
    /\ populated = "no"
    /\ \E kind \in {"cli", "ui"} : runs = [i \in RunIds |-> IdleRun(kind)]
    /\ NoTree

RunUnchanged ==
    /\ UNCHANGED <<calls, regHist, oldSections, newSections, env, cards, built, populated>>
    /\ TreeUnchanged

\* the run starts: the workbooks are downloaded and extract_sections has run
StartRun(i) ==
    /\ runs[i].pc = "idle"
    /\ runs[i].kind = "ui" \/ i = 1
    /\ \E w \in Workbooks :
           runs' = [j \in RunIds |->
               IF j = i
               THEN [runs[i] EXCEPT !.pc = "extracted", !.old = w.old, !.new = w.new,
                        !.regAtStart = registry,
                        !.overlapped = \E k \in RunIds : Active(runs[k])]
               ELSE IF Active(runs[j]) THEN [runs[j] EXCEPT !.overlapped = TRUE]
               ELSE runs[j]]
    /\ UNCHANGED registry
    /\ RunUnchanged

\* cards = build_cards(sec_old, sec_new)
RunBuildCards(i) ==
    /\ runs[i].pc = "extracted"
    /\ registry' = build_cards_registry(registry, runs[i].old, runs[i].new)
    /\ runs' = [runs EXCEPT
           ![i].pc = "built",
           ![i].cards = build_cards(CalmEnv, runs[i].old, runs[i].new),
           ![i].own = build_cards_registry(@, runs[i].old, runs[i].new)]
    /\ RunUnchanged

\* the population phase is over: main goes on to the compare pass over
\* set(old_datasources) | set(new_datasources), perform_comparison has none
AfterPopulate(r, reg) ==
    LET names == IF r.kind = "cli"
                 THEN Names(r.old.datasources) \cup Names(r.new.datasources)
                 ELSE {}
    IN  [r EXCEPT !.pc = "populated", !.pending = names,
                  !.after = IF names = {} THEN reg ELSE @]

\* populate_change_registry_from_cards(cards), one card of the loop
RunPopulateCard(i) ==
    /\ runs[i].pc = "built"
    /\ runs[i].next <= Len(runs[i].cards)
    /\ LET c == runs[i].cards[runs[i].next]
       IN  IF populate_card_raises(c)
           THEN /\ runs' = [runs EXCEPT ![i].pc = "crashed"]
                /\ UNCHANGED registry
           ELSE /\ registry' = populate_card(registry, c)
                /\ runs' = [runs EXCEPT ![i].next = @ + 1,
                                        ![i].own = populate_card(@, c)]
    /\ RunUnchanged

\* the loop of populate_change_registry_from_cards ends
RunPopulated(i) ==
    /\ runs[i].pc = "built"
    /\ runs[i].next > Len(runs[i].cards)
    /\ runs' = [runs EXCEPT ![i] = AfterPopulate(@, registry)]
    /\ UNCHANGED registry
    /\ RunUnchanged

\* main: compare(ds_name, ...) for one name of the set, in the set's order
RunCompare(i) ==
    /\ runs[i].pc = "populated"
    /\ \E name \in runs[i].pending :
           LET o == Get(runs[i].old.datasources, name)
               n == Get(runs[i].new.datasources, name)
           IN  /\ registry' = compare(registry, name, o, n)
               /\ runs' = [runs EXCEPT
                      ![i].pending = @ \ {name},
                      ![i].own = compare(@, name, o, n),
                      ![i].after = IF runs[i].pending = {name} THEN registry' ELSE @]
    /\ RunUnchanged

\* mutant: the report is built while compare calls are still due
ReadyToRender_Early(r) == r.pc = "populated"

\* the report builders run after the population and after the compare loop
ReadyToRender(r) == r.pc = "populated" /\ r.pending = {}

\* render_visual_change_tree(sec_new, CHANGE_REGISTRY, ...) and
\* generate_html_report (render_datasource_cards) read the registry
RunRender(i) ==
    /\ ReadyToRender(runs[i])
    /\ runs' = [runs EXCEPT ![i].pc = "read", ![i].seen = registry]
    /\ UNCHANGED registry
    /\ RunUnchanged

NextRun ==
    \E i \in RunIds :
        \/ StartRun(i)
        \/ RunBuildCards(i)
        \/ RunPopulateCard(i)
        \/ RunPopulated(i)
        \/ RunCompare(i)
        \/ RunRender(i)

SpecRun == InitRun /\ [][NextRun]_vars

----------------------------------------------------------------------------
(* extract_sections: the classification of the column elements             *)
(*                                                                         *)
(* An element of the tree is the record of its tag, of the attributes the  *)
(* loop reads (None: the attribute is absent, <<>>: it is the empty        *)
(* string) and of the tags of its children.  ET.tostring(e) is the record. *)

\* m[name] = f on a section map
SetItem(m, name, f) ==
    IF name \in Names(m)
    THEN [i \in DOMAIN m |->
             IF m[i].name = name THEN [name |-> name, frag |-> f] ELSE m[i]]
    ELSE Append(m, [name |-> name, frag |-> f])

\* the truth value Python gives an attribute value
Truthy(v) == v # None /\ v # <<>>

\* e.attrib.get("caption") or e.attrib.get("name") or "Unnamed Column"
ColumnName(e) ==
    IF Truthy(e.caption) THEN e.caption
    ELSE IF Truthy(e.name) THEN e.name
    ELSE <<"Unnamed", "Column">>

is_parameter(e) ==
    \/ Truthy(e.pdt)
    \/ "range" \in e.children
    \/ "list" \in e.children

has_calculation(e) == "calculation" \in e.children

\* mutant: the calculation test is an 'if' of its own
ColumnSections_Both(e) ==
    (IF is_parameter(e) THEN {"parameters"} ELSE {})
    \cup (IF has_calculation(e) THEN {"calculations"} ELSE {})

\* the maps the column branch writes the element into
ColumnSections(e) ==
    IF is_parameter(e) THEN {"parameters"}
    ELSE IF has_calculation(e) THEN {"calculations"}
    ELSE {}

\* the maps one iteration of the loop writes the element into
ElementSections(e) ==
    CASE e.tag = "column" -> ColumnSections(e)
      [] e.tag = "worksheet" -> {"worksheets"}
      [] OTHER -> {}

\* the key the element is stored under
ElementName(e) ==
    IF e.tag = "column" THEN ColumnName(e)
    ELSE IF e.name = None THEN S("unnamed") ELSE e.name

RECURSIVE ExtractAcc(_, _)
ExtractAcc(els, acc) ==
    IF els = <<>> THEN acc
    ELSE LET e == Head(els)
         IN  ExtractAcc(Tail(els),
                 [sec \in DOMAIN acc |->
                     IF sec \in ElementSections(e)
                     THEN SetItem(acc[sec], ElementName(e), e)
                     ELSE acc[sec]])

extract_sections(r) == ExtractAcc(r, NoSections)

MaxColumns == 2

Element(tag, caption, name, pdt, children) ==
    [tag |-> tag, caption |-> caption, name |-> name, pdt |-> pdt,
     children |-> children]

\* the column elements a workbook may hold, and one worksheet element
Elements ==
    {Element("column", c, S("B"), p, ch) :
        c \in {None, S("A")},
        p \in {None, <<>>, S("list")},
        ch \in SUBSET {"range", "list", "calculation"}}
    \cup {Element("worksheet", None, S("B"), None, {})}

\* nothing of the comparison has run
NoComparison ==
    /\ registry = EmptyRegistry
    /\ calls = <<>>
    /\ regHist = <<EmptyRegistry>>
    /\ oldSections = NoSections
    /\ newSections = NoSections
    /\ env = CalmEnv
    /\ cards = <<>>
    /\ built = FALSE
    /\ populated = "no"
    /\ runs = <<>>

ComparisonUnchanged ==
    UNCHANGED <<registry, calls, regHist, oldSections, newSections, env, cards,
                built, populated, runs>>

InitSections ==
    /\ NoComparison
    /\ \E n \in 1..MaxColumns : root \in [1..n -> Elements]
    /\ out = NoSections
    /\ feats = NoFeats
    /\ placed = <<>>

\* sec = extract_sections(root)
ExtractSections ==
    /\ placed = <<>>
    /\ out' = extract_sections(root)
    /\ placed' = [i \in DOMAIN root |-> ElementSections(root[i])]
    /\ UNCHANGED <<root, feats>>
    /\ ComparisonUnchanged

NextSections == ExtractSections

SpecSections == InitSections /\ [][NextSections]_vars

----------------------------------------------------------------------------
(* collect_semantics: the filter controls of zones and filter items        *)
(*                                                                         *)
(* A mode or class token is a sequence of its parts ("checkdropdown" is    *)
(* <<"check", "drop", "down">>), so that the substring tests of the hint   *)
(* list are tests for a run of parts.  The arrow of an entry is "->".      *)

CONTROL_HINTS ==
    <<[key |-> <<"single", " ", "value">>, label |-> <<"Single", "Value">>],
      [key |-> <<"single", "value", "drop", "down">>,
       label |-> <<"Single", "Value", "Dropdown">>],
      [key |-> <<"single", "value", "drop">>,
       label |-> <<"Single", "Value", "Dropdown">>],
      [key |-> <<"single">>, label |-> <<"Single", "Value">>],
      [key |-> <<"multi", "ple", " ", "value", "s">>, label |-> <<"Multiple", "Values">>],
      [key |-> <<"multi", "value">>, label |-> <<"Multiple", "Values">>],
      [key |-> <<"drop", "down">>, label |-> <<"Dropdown">>],
      [key |-> <<"list">>, label |-> <<"List">>],
      [key |-> <<"slider">>, label |-> <<"Slider">>],
      [key |-> <<"range">>, label |-> <<"Range">>],
      [key |-> <<"check", "drop", "down">>, label |-> <<"Dropdown", "(multi)">>],
      [key |-> <<"check", "list">>, label |-> <<"List", "(multi)">>]>>

ModeTable ==
    <<[key |-> <<"check", "drop", "down">>, label |-> <<"Dropdown", "(multi)">>],
      [key |-> <<"drop", "down">>, label |-> <<"Dropdown">>],
      [key |-> <<"single", "value", "drop", "down">>,
       label |-> <<"Single", "Value", "Dropdown">>],
      [key |-> <<"single">>, label |-> <<"Single", "Value">>],
      [key |-> <<"list">>, label |-> <<"List">>],
      [key |-> <<"check", "list">>, label |-> <<"List", "(multi)">>],
      [key |-> <<"slider">>, label |-> <<"Slider">>],
      [key |-> <<"range">>, label |-> <<"Range">>],
      [key |-> <<"single", "value">>, label |-> <<"Single", "Value">>],
      [key |-> <<"multi", "value">>, label |-> <<"Multiple", "Values">>]>>

ModeKeys == {ModeTable[i].key : i \in DOMAIN ModeTable}

\* MODE_TO_LABEL.get(key)
MODE_TO_LABEL(key) ==
    IF key \in ModeKeys
    THEN ModeTable[CHOOSE i \in DOMAIN ModeTable : ModeTable[i].key = key].label
    ELSE None

\* the label of the first hint whose key is in s.lower(), else None
detect_control_text(s) ==
    LET low == Lower(s)
        hits == {i \in DOMAIN CONTROL_HINTS : HasSub(low, CONTROL_HINTS[i].key)}
    IN  IF hits = {} THEN None
        ELSE CONTROL_HINTS[CHOOSE i \in hits : \A j \in hits : i <= j].label

\* s.replace(" ", "")
RemoveSpaces(s) == SelectSeq(s, LAMBDA t : t # " ")

\* a or b
OrElse(a, b) == IF Truthy(a) THEN a ELSE b

\* el.attrib.get(k, "") or ""
OrEmpty(v) == IF Truthy(v) THEN v ELSE <<>>

\* f"{field} -> {ctl_label}"
Entry(field, label) == field \o <<"->">> \o label

\* the field of a zone: group 1 of \[none:([^\]:]+):nk\] in param, stripped
ZoneField(el) ==
    IF el.param.agg = "none" THEN Strip(el.param.field) ELSE None

\* mutant: the hint list is asked before the table
ZoneLabel_HintFirst(mode) ==
    OrElse(OrElse(detect_control_text(mode), MODE_TO_LABEL(RemoveSpaces(Lower(mode)))),
           mode)

\* the label of a zone's mode: the table, else the hints, else the token
ZoneLabel(mode) ==
    LET mode_key == RemoveSpaces(Lower(mode))
        ctl_label == MODE_TO_LABEL(mode_key)
    IN  IF ~Truthy(ctl_label) THEN OrElse(detect_control_text(mode), mode)
        ELSE ctl_label

\* the entry a zone adds to feats["filter_controls"] (None: it adds none)
ZoneControl(el) ==
    LET field == ZoneField(el)
        mode == Strip(OrEmpty(el.mode))
    IN  IF Truthy(field) /\ Truthy(mode) THEN Entry(field, ZoneLabel(mode))
        ELSE None

\* the entry a filter-item or dashboard-item adds (None: it adds none)
ItemControl(el) ==
    LET f == el.field
        ctl == OrEmpty(el.class)
    IN  IF Truthy(f) /\ Truthy(detect_control_text(ctl))
        THEN Entry(f, detect_control_text(ctl))
        ELSE None

ElementControl(el) ==
    CASE el.tag = "zone" -> ZoneControl(el)
      [] el.tag = "filter-item" -> ItemControl(el)
      [] OTHER -> None

\* the order of the words of an entry, as Python orders the strings
WordOrder ==
    <<"(multi)", "Compact", "Dropdown", "List", "Multiple", "Range", "Region",
      "Single", "Slider", "Value", "Values", "Year", "->">>

WordRank(w) == CHOOSE i \in DOMAIN WordOrder : WordOrder[i] = w

RECURSIVE StrLess(_, _)
StrLess(a, b) ==
    IF b = <<>> THEN FALSE
    ELSE IF a = <<>> THEN TRUE
    ELSE IF Head(a) = Head(b) THEN StrLess(Tail(a), Tail(b))
    ELSE WordRank(Head(a)) < WordRank(Head(b))

\* sorted(set of str)
RECURSIVE SortStrs(_)
SortStrs(ss) ==
    IF ss = {} THEN <<>>
    ELSE LET least == CHOOSE a \in ss : \A b \in ss \ {a} : StrLess(a, b)
         IN  <<least>> \o SortStrs(ss \ {least})

\* feats["filter_controls"] as collect_semantics returns it
filter_controls(r) ==
    SortStrs({ElementControl(r[i]) : i \in DOMAIN r} \ {None})

MaxElements == 2

NoParam == [agg |-> "absent", field |-> <<>>]

NoneParam(field) == [agg |-> "none", field |-> field]

Zone(param, mode) ==
    [tag |-> "zone", param |-> param, mode |-> mode, field |-> None, class |-> None]

Item(field, class) ==
    [tag |-> "filter-item", param |-> NoParam, mode |-> None, field |-> field,
     class |-> class]

\* the values of a zone's mode attribute
Modes ==
    ModeKeys
    \cup {None, <<" ">>, <<"Check", " ", "drop", "down">>, <<"type", "in", "list">>,
          <<" ", "Compact">>}

\* the values of a filter item's class attribute
Classes == ModeKeys \cup {None, <<"Compact">>}

ControlElements ==
    {Zone(p, m) : p \in {NoParam, NoneParam(S("Region"))}, m \in Modes}
    \cup {Zone([agg |-> "sum", field |-> S("Region")], <<"drop", "down">>),
          Zone(NoneParam(<<" ">>), <<"drop", "down">>),
          Zone(NoneParam(S("Year")), <<"slider">>)}
    \cup {Item(S("Region"), c) : c \in Classes}
    \cup {Item(None, <<"drop", "down">>)}

InitControls ==
    /\ NoComparison
    /\ \E n \in 1..MaxElements : root \in [1..n -> ControlElements]
    /\ out = NoSections
    /\ feats = NoFeats
    /\ placed = <<>>

\* sem = collect_semantics(xml_text)
CollectSemantics ==
    /\ placed = <<>>
    /\ feats' = [filter_controls |-> filter_controls(root)]
    /\ placed' = [i \in DOMAIN root |-> ElementControl(root[i])]
    /\ UNCHANGED <<root, out>>
    /\ ComparisonUnchanged

NextControls == CollectSemantics

SpecControls == InitControls /\ [][NextControls]_vars

----------------------------------------------------------------------------
(* Claims about register_change (checked under SpecRegister) *)

NCalls == Len(calls)

LastCall == calls[NCalls]

\* the registry before the latest call
Before == regHist[NCalls]

IsFilterCall(a) == a.level = "datasource" /\ a.title = FilterTitle

Recognised(level) == level = "workbook" \/ BucketOf(level) # "none"

\* the list of records a (level, parent) addresses
RecsAt(reg, level, parent) ==
    IF level = "workbook" THEN reg.workbook
    ELSE IF BucketOf(level) = "none" THEN <<>>
    ELSE Recs(reg[BucketOf(level)], parent)

\* the records stored for the object a call names
ObjRecs(reg, a) ==
    SelectSeq(RecsAt(reg, a.level, a.parent),
              LAMBDA r : r.object = ObjName(a.title))

BulletsOf(recs) == [i \in DOMAIN recs |-> recs[i].bullets]

IsFilterRec(r) == r.object = FilterObject /\ r.title = FilterTitle

FilterRecs(reg, parent) == SelectSeq(Recs(reg.datasources, parent), IsFilterRec)

Repeated == NCalls >= 2 /\ calls[NCalls] = calls[NCalls - 1]

FirstN(xs, n) == SubSeq(xs, 1, IF Len(xs) < n THEN Len(xs) ELSE n)

\* C1 as stated: two identical calls leave exactly one record for the object,
\* with the bullets of a single call, whatever the level; two identical
\* datasource-filter calls leave two more records.
C1_Original ==
    Repeated =>
        IF IsFilterCall(LastCall)
        THEN Len(FilterRecs(registry, LastCall.parent))
                 = Len(FilterRecs(regHist[NCalls - 1], LastCall.parent)) + 2
        ELSE /\ Len(ObjRecs(registry, LastCall)) = 1
             /\ BulletsOf(ObjRecs(registry, LastCall))
                    = BulletsOf(ObjRecs(Before, LastCall))

\* C1 amended: for a recognised level the second of two identical calls adds
\* no record for the object and leaves its bullets as the single call left
\* them, and the object has exactly one record unless several records of that
\* object name were stored before the calls; for any other level neither call
\* stores anything; two identical datasource-filter calls add two records.
C1_Idempotent ==
    Repeated =>
        IF IsFilterCall(LastCall)
        THEN Len(FilterRecs(registry, LastCall.parent))
                 = Len(FilterRecs(regHist[NCalls - 1], LastCall.parent)) + 2
        ELSE IF ~Recognised(LastCall.level)
        THEN registry = regHist[NCalls - 1]
        ELSE /\ Len(ObjRecs(registry, LastCall)) >= 1
             /\ Len(ObjRecs(registry, LastCall)) = Len(ObjRecs(Before, LastCall))
             /\ BulletsOf(ObjRecs(registry, LastCall))
                    = BulletsOf(ObjRecs(Before, LastCall))
             /\ Len(ObjRecs(regHist[NCalls - 1], LastCall)) <= 1
                    => Len(ObjRecs(registry, LastCall)) = 1

\* two identical calls on top of a record an earlier, different call stored
C1_Witness ==
    /\ NCalls = 3
    /\ Repeated
    /\ ~IsFilterCall(LastCall)
    /\ calls[1] # calls[2]
    /\ Len(ObjRecs(regHist[2], LastCall)) = 1
    /\ Len(ObjRecs(registry, LastCall)) = 1
    /\ Len(ObjRecs(registry, LastCall)[1].bullets)
           > Len(ObjRecs(regHist[2], LastCall)[1].bullets)

\* C3 as stated: a datasource-filter call appends one record under its parent,
\* and no call of any kind changes a datasource-filter record already stored.
C3_Original ==
    NCalls >= 1 =>
        /\ \A k \in DOMAIN Before.datasources :
               LET p == Before.datasources[k].parent
                   old == Recs(Before.datasources, p)
                   new == Recs(registry.datasources, p)
               IN  \A i \in DOMAIN old :
                       IsFilterRec(old[i]) => (i \in DOMAIN new /\ new[i] = old[i])
        /\ IsFilterCall(LastCall) =>
               LET old == Recs(Before.datasources, LastCall.parent)
                   new == Recs(registry.datasources, LastCall.parent)
               IN  /\ Len(new) = Len(old) + 1
                   /\ IsFilterRec(new[Len(new)])
                   /\ new[Len(new)].bullets = DictFromKeys(LastCall.bullets)

\* the latest call hit an object that already had a record
MergeCase ==
    /\ NCalls >= 1
    /\ ~IsFilterCall(LastCall)
    /\ Recognised(LastCall.level)
    /\ ObjRecs(Before, LastCall) # <<>>

LongerStatus(old, new) == IF StrLen(old) < StrLen(new) THEN new ELSE old

AllRecs(reg) ==
    {reg.workbook[i] : i \in DOMAIN reg.workbook}
    \cup UNION {UNION {{reg[b][i].recs[j] : j \in DOMAIN reg[b][i].recs} :
                          i \in DOMAIN reg[b]} :
                   b \in {"datasources", "calculations", "parameters", "worksheets",
                          "dashboards", "stories"}}

\* no two bullets of the list have the same normalised key
DistinctKeys(bullets) ==
    \A i, j \in DOMAIN bullets : i # j => BulletKey(bullets[i]) # BulletKey(bullets[j])

\* C18 as stated: in every reachable registry state no record holds two
\* bullets with the same normalised key, also after merges.
C18_Original == \A r \in AllRecs(registry) : DistinctKeys(r.bullets)

\* C26 as stated: every record that is not a datasource-filter record and
\* whose title does not contain 'Calculation' holds at most six bullets.
C26_Original ==
    \A r \in AllRecs(registry) :
        (/\ r.object # FilterObject
         /\ r.title # FilterTitle
         /\ ~HasSub(r.title, S("Calculation")))
        => Len(r.bullets) <= ShownCap

Buckets ==
    {"datasources", "calculations", "parameters", "worksheets", "dashboards",
     "stories"}

\* xs is a subsequence of ys: same elements in the same relative order
RECURSIVE IsSubSeq(_, _)
IsSubSeq(xs, ys) ==
    IF xs = <<>> THEN TRUE
    ELSE IF ys = <<>> THEN FALSE
    ELSE IF Head(xs) = Head(ys) THEN IsSubSeq(Tail(xs), Tail(ys))
    ELSE IsSubSeq(xs, Tail(ys))

\* the list after keeps every record of the list before at its place, with
\* its object and with the stored bullets in their order
RecsKept(before, after) ==
    /\ Len(before) <= Len(after)
    /\ \A j \in DOMAIN before :
           /\ after[j].object = before[j].object
           /\ IsSubSeq(before[j].bullets, after[j].bullets)

\* the places (bucket, parent, index) whose record the latest call wrote
Written(before, after) ==
    {<<"workbook", <<>>, j>> :
        j \in {k \in DOMAIN after.workbook :
                  k > Len(before.workbook) \/ after.workbook[k] # before.workbook[k]}}
    \cup UNION {UNION {{<<b, after[b][i].parent, j>> :
                          j \in {k \in DOMAIN after[b][i].recs :
                                    LET was == Recs(before[b], after[b][i].parent)
                                    IN  k > Len(was) \/ after[b][i].recs[k] # was[k]}} :
                        i \in DOMAIN after[b]} :
                 b \in Buckets}

\* C28: a register_change call removes no record and no stored bullet, keeps
\* the relative order of the stored bullets and of the parents, and writes at
\* most one record; every other record and bucket is as before.
C28_OnlyGrows ==
    NCalls >= 1 =>
        /\ RecsKept(Before.workbook, registry.workbook)
        /\ \A b \in Buckets :
               /\ Len(Before[b]) <= Len(registry[b])
               /\ \A i \in DOMAIN Before[b] :
                      /\ registry[b][i].parent = Before[b][i].parent
                      /\ RecsKept(Before[b][i].recs, registry[b][i].recs)
        /\ Cardinality(Written(Before, registry)) <= 1

\* a merge added bullets to a record while a record of another parent and a
\* record of the same list were stored
C28_Witness ==
    /\ MergeCase
    /\ \E b \in Buckets : Len(Before[b]) >= 2
    /\ Cardinality(Written(Before, registry)) = 1
    /\ \E w \in Written(Before, registry) :
           /\ w[1] # "workbook"
           /\ w[3] <= Len(Recs(Before[w[1]], w[2]))
           /\ Len(Recs(Before[w[1]], w[2])[w[3]].bullets)
                  < Len(Recs(registry[w[1]], w[2])[w[3]].bullets)

\* C29: a call whose level is none of workbook, datasource, worksheet,
\* dashboard, parameter, story leaves the whole registry as it was and does
\* not raise; the bucket 'calculations' is empty in every reachable state.
C29_UnknownLevel ==
    /\ registry.calculations = <<>>
    /\ (NCalls >= 1 /\ ~Recognised(LastCall.level))
       => /\ registry = Before
          /\ ~register_change_raises(LastCall.level, LastCall.title, LastCall.bullets)

\* a call of level 'calculation' arrived at a registry that holds records
C29_Witness ==
    /\ NCalls >= 2
    /\ LastCall.level = "calculation"
    /\ Before # EmptyRegistry
    /\ registry = Before
    /\ \E r \in AllRecs(registry) : HasSub(r.title, S("Calculation"))

----------------------------------------------------------------------------
(* Claims about build_cards (checked under SpecCards) *)

\* the cards build_cards returned for one name of one section
CardsFor(sec, name) ==
    SelectSeq(cards, LAMBDA c : c.section = sec /\ c.name = name)

PlainSections == {"worksheets", "dashboards", "parameters", "stories"}

OnlyOld(sec, name) ==
    name \in Names(oldSections[sec]) /\ name \notin Names(newSections[sec])

OnlyNew(sec, name) ==
    name \in Names(newSections[sec]) /\ name \notin Names(oldSections[sec])

InBoth(sec, name) ==
    name \in Names(oldSections[sec]) /\ name \in Names(newSections[sec])

Unchanged(sec, name) ==
    InBoth(sec, name) /\ Frag(oldSections[sec], name) = Frag(newSections[sec], name)

Changed(sec, name) ==
    InBoth(sec, name) /\ Frag(oldSections[sec], name) # Frag(newSections[sec], name)

\* C8: for worksheets, dashboards, parameters and stories, a name only in the
\* old map gets exactly one card, with status removed; a name only in the new
\* map exactly one card, with status added; a name in both maps with identical
\* fragment text gets no card.
C8_AddRemove ==
    built =>
        \A sec \in PlainSections :
            \A name \in Names(oldSections[sec]) \cup Names(newSections[sec]) :
                /\ OnlyOld(sec, name) =>
                       /\ Len(CardsFor(sec, name)) = 1
                       /\ CardsFor(sec, name)[1].status = S("removed")
                /\ OnlyNew(sec, name) =>
                       /\ Len(CardsFor(sec, name)) = 1
                       /\ CardsFor(sec, name)[1].status = S("added")
                /\ Unchanged(sec, name) => CardsFor(sec, name) = <<>>

\* a removed name next to a name that did not change
C8_Witness ==
    /\ built
    /\ \E sec \in PlainSections :
           \E n1, n2 \in Names(oldSections[sec]) :
               /\ OnlyOld(sec, n1)
               /\ Unchanged(sec, n2)
               /\ Len(CardsFor(sec, n1)) = 1
               /\ CardsFor(sec, n2) = <<>>

\* C9 as stated: in every section a name in both maps whose fragment text
\* differs gets exactly one modified card, unless the publish-noise rule
\* removes a dashboard or story pair.
C9_Original ==
    built =>
        \A sec \in PlainSections \cup {"datasources"} :
            \A name \in Names(oldSections[sec]) :
                (/\ Changed(sec, name)
                 /\ ~(/\ sec \in {"dashboards", "stories"}
                      /\ is_story_publish_noise(env, sec, Frag(oldSections[sec], name),
                                                Frag(newSections[sec], name))))
                => /\ Len(CardsFor(sec, name)) = 1
                   /\ CardsFor(sec, name)[1].status = S("modified")

\* the RLS calculations of a map that carry formula f
RlsNamesWith(calcs, f) ==
    {calcs[i].name : i \in {k \in DOMAIN calcs :
        /\ is_rls_calculation(extract_formula(calcs[k].frag))
        /\ extract_formula(calcs[k].frag) = f}}

IsRenameCard(c, o, n) ==
    /\ c.section = "calculations"
    /\ c.title = <<"Renamed", "RLS", "Calculation">>
    /\ c.name = n
    /\ c.bullets[2] = <<"Old", "name:">> \o o

IsRemovedCalcCard(c, o) ==
    c.section = "calculations" /\ c.status = S("removed") /\ c.name = o

IsAddedCalcCard(c, n) ==
    c.section = "calculations" /\ c.status = S("added") /\ c.name = n

\* the pairs the rename rule is about: formula f is the formula of exactly one
\* RLS calculation o of the old map and exactly one n of the new map, o # n
RenamePair(f, o, n) ==
    /\ RlsNamesWith(oldSections.calculations, f) = {o}
    /\ RlsNamesWith(newSections.calculations, f) = {n}
    /\ o # n

\* C10: for such a pair build_cards emits exactly one rename card o -> n, no
\* removed card for o and no added card for n.
C10_RenameExclusive ==
    built =>
        \A f \in {FormulaF, FormulaG, FormulaH}, o \in CalcNames, n \in CalcNames :
            RenamePair(f, o, n) =>
                /\ Len(SelectSeq(cards, LAMBDA c : IsRenameCard(c, o, n))) = 1
                /\ ~\E i \in DOMAIN cards : IsRemovedCalcCard(cards[i], o)
                /\ ~\E i \in DOMAIN cards : IsAddedCalcCard(cards[i], n)

\* a rename found among other RLS calculations with another formula
C10_Witness ==
    /\ built
    /\ \E o \in CalcNames, n \in CalcNames :
           /\ RenamePair(FormulaF, o, n)
           /\ RlsNamesWith(newSections.calculations, FormulaG) # {}
           /\ \E i \in DOMAIN cards : IsRenameCard(cards[i], o, n)

\* C11 as stated: when formula f is the formula of two RLS calculations of
\* the old map and of exactly one of the new map, detect_rls_renames records
\* no rename for either old name: both get a removed card, the new name an
\* added card.
C11_Original ==
    built =>
        \A f \in {FormulaF, FormulaG, FormulaH}, o1 \in CalcNames, o2 \in CalcNames :
            (/\ o1 # o2
             /\ {o1, o2} \subseteq RlsNamesWith(oldSections.calculations, f)
             /\ Cardinality(RlsNamesWith(newSections.calculations, f)) = 1)
            => LET renames == detect_rls_renames(oldSections.calculations,
                                                 newSections.calculations)
               IN  /\ \A i \in DOMAIN renames : renames[i].old \notin {o1, o2}
                   /\ \A i \in DOMAIN cards :
                          cards[i].title # <<"Renamed", "RLS", "Calculation">>

\* the records the registry holds under a parent of a bucket
RecsOf(bucket, name) == Recs(registry[bucket], name)

\* the delta bullets of a card: all but the separator before the GPT lines
DeltaBullets(bullets) == SelectSeq(bullets, LAMBDA b : b # GptHeader)

\* the two fragments differ in their zone layout only
LayoutOnlyPair(o, n) == o # n /\ o = [n EXCEPT !.layout = o.layout]

\* C12 as stated: a dashboard of both maps that differs in layout only, and
\* whose delta bullets all match the layout-only vocabulary, is in the registry
\* after build_cards and populate_change_registry_from_cards with status
\* Additional, never with a modified status.
C12_Original ==
    populated = "done" =>
        \A name \in Names(oldSections.dashboards) :
            (/\ InBoth("dashboards", name)
             /\ LayoutOnlyPair(Frag(oldSections.dashboards, name),
                               Frag(newSections.dashboards, name))
             /\ CardsFor("dashboards", name) # <<>>
             /\ LayoutOnly(DeltaBullets(CardsFor("dashboards", name)[1].bullets)))
            => /\ RecsOf("dashboards", name) # <<>>
               /\ \A i \in DOMAIN RecsOf("dashboards", name) :
                      RecsOf("dashboards", name)[i].status = S("Additional")

\* the two fragments differ in their repository-location id only
PublishOnlyPair(o, n) == o # n /\ o = [n EXCEPT !.repo = o.repo]

\* C13: a story of both maps whose fragments differ only in publish-time
\* identifiers gets no card from build_cards and no record in the registry,
\* before and after populate_change_registry_from_cards.
C13_StoryNoise ==
    built =>
        \A name \in Names(oldSections.stories) :
            (/\ InBoth("stories", name)
             /\ PublishOnlyPair(Frag(oldSections.stories, name),
                                Frag(newSections.stories, name)))
            => /\ CardsFor("stories", name) = <<>>
               /\ RecsOf("stories", name) = <<>>

\* a republished story next to a story that was added and did get its record
C13_Witness ==
    /\ populated = "done"
    /\ \E name \in Names(oldSections.stories), other \in Names(newSections.stories) :
           /\ InBoth("stories", name)
           /\ PublishOnlyPair(Frag(oldSections.stories, name),
                              Frag(newSections.stories, name))
           /\ OnlyNew("stories", other)
           /\ RecsOf("stories", other) # <<>>
           /\ RecsOf("stories", name) = <<>>

AllSections == PlainSections \cup {"datasources", "calculations"}

\* the two section maps differ only by names present on one side
PresenceOnly ==
    \A sec \in AllSections :
        \A name \in Names(oldSections[sec]) :
            InBoth(sec, name) => Unchanged(sec, name)

FlipWord(t) ==
    CASE t = "removed" -> "added"
      [] t = "added" -> "removed"
      [] OTHER -> t

\* what a card says, and the same with added and removed exchanged (the
\* word of the status is exchanged in the bullets too)
CardFact(c) == [name |-> c.name, status |-> c.status, bullets |-> c.bullets]

FlippedFact(c) ==
    [name |-> c.name,
     status |-> [i \in DOMAIN c.status |-> FlipWord(c.status[i])],
     bullets |-> [i \in DOMAIN c.bullets |->
                     [j \in DOMAIN c.bullets[i] |-> FlipWord(c.bullets[i][j])]]]

\* C14 as stated: when the maps differ by presence only, comparing (new, old)
\* yields cards for the same names as comparing (old, new), with added and
\* removed exchanged and the same bullet content.
C14_Original ==
    (built /\ PresenceOnly) =>
        LET swapped == build_cards(env, newSections, oldSections)
        IN  {FlippedFact(cards[i]) : i \in DOMAIN cards}
                = {CardFact(swapped[i]) : i \in DOMAIN swapped}

\* the bullets among bs that carry the word w and name field f
FactsOf(bs, w, f) ==
    SelectSeq(bs, LAMBDA b : HasSub(b, S(w)) /\ HasSub(b, FieldWords(f)))

\* C15 as stated: a worksheet of both maps whose filter sets differ has, after
\* build_cards and populate_change_registry_from_cards, exactly one record,
\* with status modified, whose stored bullets hold exactly one add-fact for
\* every filter only in the new fragment and exactly one remove-fact for
\* every filter only in the old one.
C15_Original ==
    populated = "done" =>
        \A name \in Names(oldSections.worksheets) :
            LET o == Frag(oldSections.worksheets, name)
                n == Frag(newSections.worksheets, name)
                recs == RecsOf("worksheets", name)
            IN  (InBoth("worksheets", name) /\ o.filters # n.filters)
                => /\ Len(recs) = 1
                   /\ recs[1].status = S("modified")
                   /\ \A f \in n.filters \ o.filters :
                          Len(FactsOf(recs[1].bullets, "added:", f)) = 1
                   /\ \A f \in o.filters \ n.filters :
                          Len(FactsOf(recs[1].bullets, "removed:", f)) = 1

\* C16 as stated: a datasource of both maps whose fragments differ only in
\* the repository-location id gets no card and no registry record.
C16_Original ==
    built =>
        \A name \in Names(oldSections.datasources) :
            (/\ InBoth("datasources", name)
             /\ PublishOnlyPair(Frag(oldSections.datasources, name),
                                Frag(newSections.datasources, name)))
            => /\ CardsFor("datasources", name) = <<>>
               /\ RecsOf("datasources", name) = <<>>

\* C17 as stated: build_cards followed by populate_change_registry_from_cards
\* never ends in an uncaught exception.
C17_Original == populated # "raised"

\* the calculation is not RLS-classified in any map that holds it
NonRls(name) ==
    /\ name \in Names(oldSections.calculations) =>
           ~is_rls_calculation(extract_formula(Frag(oldSections.calculations, name)))
    /\ name \in Names(newSections.calculations) =>
           ~is_rls_calculation(extract_formula(Frag(newSections.calculations, name)))

\* C19 as stated: a calculation that is not RLS-classified gets a removed
\* card when only in the old map, an added card when only in the new map, one
\* modified card when in both with another formula, and is on neither side of
\* a rename.
C19_Original ==
    built =>
        \A name \in Names(oldSections.calculations) \cup Names(newSections.calculations) :
            NonRls(name) =>
                LET cs == CardsFor("calculations", name)
                    renames == detect_rls_renames(oldSections.calculations,
                                                  newSections.calculations)
                IN  /\ OnlyOld("calculations", name) =>
                           Len(cs) = 1 /\ cs[1].status = S("removed")
                    /\ OnlyNew("calculations", name) =>
                           Len(cs) = 1 /\ cs[1].status = S("added")
                    /\ Changed("calculations", name) =>
                           Len(cs) = 1 /\ cs[1].status = S("modified")
                    /\ \A i \in DOMAIN renames :
                           renames[i].old # name /\ renames[i].new # name

\* a card or a registry record of the datasource carries one of the statuses
DatasourceStatus(name, statuses) ==
    \/ \E i \in DOMAIN CardsFor("datasources", name) :
           CardsFor("datasources", name)[i].status \in statuses
    \/ \E i \in DOMAIN RecsOf("datasources", name) :
           RecsOf("datasources", name)[i].status \in statuses

\* C20 as stated: a datasource only in the old map yields a record with status
\* removed, a datasource only in the new map a record with status added.
C20_Original ==
    populated = "done" =>
        \A name \in Names(oldSections.datasources) \cup Names(newSections.datasources) :
            /\ OnlyOld("datasources", name) =>
                   DatasourceStatus(name, {S("removed"), S("Removed")})
            /\ OnlyNew("datasources", name) =>
                   DatasourceStatus(name, {S("added"), S("Added")})

\* the formula a calculation map holds for a name
FormulaOf(calcs, name) == extract_formula(Frag(calcs, name))

\* the new RLS names that carry the formula of old name o under another name
MatchNames(o) ==
    RlsNamesWith(newSections.calculations, FormulaOf(oldSections.calculations, o)) \ {o}

IsRenameCardFrom(c, o) ==
    /\ c.title = <<"Renamed", "RLS", "Calculation">>
    /\ c.bullets[2] = <<"Old", "name:">> \o o

IsRenameCardTo(c, n) ==
    c.title = <<"Renamed", "RLS", "Calculation">> /\ c.name = n

\* C21: an old RLS calculation that is absent from the new map and whose
\* formula matches no new RLS name, or at least two, gets exactly one removed
\* card and no rename card; a new calculation that is absent from the old map
\* and is the target of no rename card gets exactly one added card.
C21_AmbiguousFallback ==
    built =>
        /\ \A o \in Names(oldSections.calculations) :
               (/\ is_rls_calculation(FormulaOf(oldSections.calculations, o))
                /\ o \notin Names(newSections.calculations)
                /\ Cardinality(MatchNames(o)) # 1)
               => /\ Len(SelectSeq(cards, LAMBDA c : IsRemovedCalcCard(c, o))) = 1
                  /\ \A i \in DOMAIN cards : ~IsRenameCardFrom(cards[i], o)
        /\ \A n \in Names(newSections.calculations) :
               (/\ n \notin Names(oldSections.calculations)
                /\ \A i \in DOMAIN cards : ~IsRenameCardTo(cards[i], n))
               => Len(SelectSeq(cards, LAMBDA c : IsAddedCalcCard(c, n))) = 1

\* one old RLS name whose formula is carried by two new names
C21_Witness ==
    /\ built
    /\ \E o \in Names(oldSections.calculations) :
           /\ is_rls_calculation(FormulaOf(oldSections.calculations, o))
           /\ o \notin Names(newSections.calculations)
           /\ Cardinality(MatchNames(o)) = 2
           /\ \E i \in DOMAIN cards : IsRemovedCalcCard(cards[i], o)
           /\ \A n \in MatchNames(o) :
                  \E i \in DOMAIN cards : IsAddedCalcCard(cards[i], n)

\* C22: within each category the cards are emitted in ascending order of the
\* object name, calculations included.
C22_Original ==
    built =>
        \A i, j \in DOMAIN cards :
            (i < j /\ cards[i].section = cards[j].section)
            => NameRank(cards[i].name) <= NameRank(cards[j].name)

\* C27: a rename card old -> new is emitted only if the old name is absent
\* from the new calculation map and the new name is absent from the old one.
C27_Original ==
    built =>
        \A i \in DOMAIN cards :
            \A o \in Names(oldSections.calculations), n \in Names(newSections.calculations) :
                IsRenameCard(cards[i], o, n)
                => /\ o \notin Names(newSections.calculations)
                   /\ n \notin Names(oldSections.calculations)

----------------------------------------------------------------------------
(* Claims about the comparison runs (checked under SpecRun) *)

\* no two records of one parent carry the same object name, filter records aside
NoDuplicateIn(m) ==
    \A i \in DOMAIN m :
        \A j, k \in DOMAIN m[i].recs :
            (j # k /\ m[i].recs[j].object = m[i].recs[k].object)
                => m[i].recs[j].object = FilterObject

NoDuplicates(reg) ==
    /\ \A j, k \in DOMAIN reg.workbook :
           j # k => reg.workbook[j].object # reg.workbook[k].object
    /\ \A b \in {"datasources", "calculations", "parameters", "worksheets",
                 "dashboards", "stories"} : NoDuplicateIn(reg[b])

Populated(r) == (r.pc = "populated" /\ r.pending = {}) \/ r.pc = "read"

\* C2 as stated: once the population phase of a run is complete the registry
\* holds at most one record per (level, parent, object name), filter records
\* excepted.
C2_Original ==
    \A i \in RunIds : Populated(runs[i]) => NoDuplicates(runs[i].after)

SameInputs(r, q) == r.old = q.old /\ r.new = q.new

\* run q follows run r: it began with the registry r left, and neither ran
\* beside another run
InSuccession(r, q) ==
    /\ r.pc = "read" /\ q.pc = "read"
    /\ ~r.overlapped /\ ~q.overlapped
    /\ q.regAtStart = r.seen

\* C5 as stated: two runs in succession on the same section maps leave the
\* same registry.
C5_Original ==
    \A i, j \in RunIds :
        (i # j /\ InSuccession(runs[i], runs[j]) /\ SameInputs(runs[i], runs[j]))
            => runs[j].seen = runs[i].seen

\* C6 as stated: the registry is empty when a run starts.
C6_Original ==
    \A i \in RunIds : runs[i].pc # "idle" => runs[i].regAtStart = EmptyRegistry

\* C7 as stated: a run that ran beside another reads exactly the records it
\* registered itself.
C7_Original ==
    \A i \in RunIds :
        (/\ runs[i].pc = "read"
         /\ runs[i].overlapped
         /\ runs[i].regAtStart = EmptyRegistry)
            => runs[i].seen = runs[i].own

\* the run has made every write it is to make
WritesDone(r) ==
    /\ r.next > Len(r.cards)
    /\ r.pending = {}
    /\ r.kind = "cli"
       => \A name \in Names(r.old.datasources) \cup Names(r.new.datasources) :
              \E j \in DOMAIN Recs(r.own.datasources, name) :
                  Recs(r.own.datasources, name)[j].object = MetadataObject

\* C23: within one run every write to the registry precedes the first read
\* by a report builder: when the run reads, its card population and its
\* compare pass are complete, and from then on the run writes nothing.
C23_WritesBeforeReads ==
    /\ [](\A i \in RunIds : runs[i].pc = "read" => WritesDone(runs[i]))
    /\ [][\A i \in RunIds :
              runs[i].pc = "read"
              => runs'[i].pc = "read" /\ runs'[i].own = runs[i].own]_vars

\* a run of main has populated cards, compared a datasource and then read
C23_Witness ==
    \E i \in RunIds :
        /\ runs[i].pc = "read"
        /\ runs[i].kind = "cli"
        /\ runs[i].cards # <<>>
        /\ Names(runs[i].old.datasources) \cup Names(runs[i].new.datasources) # {}
        /\ runs[i].own # EmptyRegistry

----------------------------------------------------------------------------
(* Claims about extract_sections (checked under SpecSections) *)

Extracted == placed # <<>>

HasChild(e, tag) == tag \in e.children

\* the element has the attribute param-domain-type, whatever its value
HasDomainAttr(e) == e.pdt # None

\* the attribute is there and is not the empty string
DeclaresDomain(e) == e.pdt # None /\ e.pdt # <<>>

\* the parameter rule, an empty attribute counting as a domain type or not
ParamRule(e, emptyCounts) ==
    \/ IF emptyCounts THEN HasDomainAttr(e) ELSE DeclaresDomain(e)
    \/ HasChild(e, "range")
    \/ HasChild(e, "list")

\* the entries of a returned map are elements the rule puts there
MapsAgree(emptyCounts) ==
    /\ \A i \in DOMAIN out.parameters :
           ParamRule(out.parameters[i].frag, emptyCounts)
    /\ \A i \in DOMAIN out.calculations :
           /\ ~ParamRule(out.calculations[i].frag, emptyCounts)
           /\ HasChild(out.calculations[i].frag, "calculation")

\* every column is stored where the rule says, and nowhere else
Classified(emptyCounts) ==
    \A i \in DOMAIN root :
        root[i].tag = "column" =>
            /\ placed[i] = IF ParamRule(root[i], emptyCounts) THEN {"parameters"}
                           ELSE IF HasChild(root[i], "calculation")
                                THEN {"calculations"}
                                ELSE {}
            /\ \A sec \in placed[i] : ColumnName(root[i]) \in Names(out[sec])
            /\ Cardinality(placed[i]) <= 1

\* C24 as stated: a column with a param-domain-type attribute, a range child
\* or a list child is a parameter; otherwise one with a calculation child is
\* a calculation; otherwise it is in no map; never in both.
C24_Original == Extracted => Classified(TRUE) /\ MapsAgree(TRUE)

\* C24, amended: the same for a column with a non-empty param-domain-type
\* attribute, a range child or a list child.
C24_Classified == Extracted => Classified(FALSE) /\ MapsAgree(FALSE)

\* a parameter that also has a calculation child, and a plain calculation
C24_Witness ==
    /\ Extracted
    /\ \E i, j \in DOMAIN root :
           /\ root[i].tag = "column" /\ root[j].tag = "column"
           /\ HasChild(root[i], "calculation") /\ HasChild(root[i], "range")
           /\ placed[i] = {"parameters"}
           /\ placed[j] = {"calculations"}
           /\ out.parameters # <<>> /\ out.calculations # <<>>

----------------------------------------------------------------------------
(* Claims about collect_semantics (checked under SpecControls) *)

Collected == placed # <<>>

Recorded(entry) == \E k \in DOMAIN feats.filter_controls : feats.filter_controls[k] = entry

\* the zone carries a filter field and a mode token that is not blank
FilterZone(el) ==
    /\ el.tag = "zone"
    /\ el.param.agg = "none"
    /\ Strip(el.param.field) # <<>>
    /\ el.mode # None
    /\ Strip(el.mode) # <<>>

\* the normalised token: lower case, blanks removed
Token(mode) == RemoveSpaces(Lower(Strip(mode)))

\* the hints a token matches, in the order of the list
Hints(mode) ==
    {i \in DOMAIN CONTROL_HINTS : HasSub(Lower(Strip(mode)), CONTROL_HINTS[i].key)}

\* table label, else label of the first matching hint, else the raw token
Precedence(mode) ==
    IF Token(mode) \in ModeKeys THEN MODE_TO_LABEL(Token(mode))
    ELSE IF Hints(mode) # {}
         THEN CONTROL_HINTS[CHOOSE i \in Hints(mode) : \A j \in Hints(mode) : i <= j].label
         ELSE Strip(mode)

\* C25: every zone with a filter field and a non-empty mode token gets a
\* filter-control entry for the field, labelled by the table if the token is
\* a key of the table, else by the first matching hint, else by the token.
C25_NeverDropped ==
    Collected =>
        \A i \in DOMAIN root :
            FilterZone(root[i])
            => LET entry == Entry(Strip(root[i].param.field), Precedence(root[i].mode))
               IN  placed[i] = entry /\ Recorded(entry)

\* one zone is labelled by the raw token, another by the table although a
\* hint earlier in the list matches too
C25_Witness ==
    /\ Collected
    /\ \E i, j \in DOMAIN root :
           /\ FilterZone(root[i]) /\ FilterZone(root[j])
           /\ Token(root[i].mode) \notin ModeKeys /\ Hints(root[i].mode) = {}
           /\ Recorded(Entry(S("Region"), S("Compact")))
           /\ Token(root[j].mode) = <<"check", "drop", "down">>
           /\ Recorded(Entry(S("Region"), <<"Dropdown", "(multi)">>))

\* C30 as stated: for every key of the table the hint classifier gives the
\* label of the table, so a filter item whose class is the key is recorded
\* with the table's label, the same entry as a zone of that field and mode.
C30_Original ==
    Collected =>
        /\ \A j \in DOMAIN root :
               (/\ root[j].tag = "filter-item"
                /\ root[j].field # None
                /\ root[j].class \in ModeKeys)
               => placed[j] = Entry(root[j].field, MODE_TO_LABEL(root[j].class))
        /\ \A i, j \in DOMAIN root :
               (/\ FilterZone(root[i])
                /\ root[j].tag = "filter-item"
                /\ root[j].field = Strip(root[i].param.field)
                /\ root[i].mode \in ModeKeys
                /\ root[j].class = root[i].mode)
               => placed[i] = placed[j]

====
